---- MODULE Spec2Model ----
(***************************************************************************)
(* uni-api: an OpenAI-compatible reverse proxy.                            *)
(*                                                                         *)
(* The module models three parts of src/api:                               *)
(*   - the selector (index.py: weighted_choice and its circuit breaker),   *)
(*     as operators, exercised by SelSpec on bounded inputs;               *)
(*   - the per-pair request history (index.py: record_model_request,       *)
(*     batch_get_model_request_record) under concurrent streaming          *)
(*     requests, by Spec;                                                  *)
(*   - one streaming request's drain and emit tasks                        *)
(*     (stream_handler.py: StreamHandler), by StreamSpec.                  *)
(*                                                                         *)
(* Time is in milliseconds, the unit of request_time.                      *)
(***************************************************************************)
EXTENDS Integers, Sequences, FiniteSets, TLC

VARIABLES
    now,                    \* the wall clock, time.time() * 1000
    redis_client,           \* index.py:158, TRUE when REDIS_URL is configured
    redis_db,               \* the remote store: key -> window
    redis_exp,              \* the remote store: key -> expiry time (0: no such key)
    model_request_history,  \* index.py:73, the local dict: key -> deque object (0: no entry)
    heap,                   \* the deque objects of the process: object id -> window
    sel_pairs,              \* weighted_choice: argument config_model_pairs
    sel_map,                \* weighted_choice: argument model_request_map (by value)
    sel_valid,              \* weighted_choice: local valid_config_model_pairs
    sel_weights,            \* weighted_choice: local weights
    sel_out,                \* weighted_choice: the value returned
    sel_time,               \* weighted_choice: time.time() of the call
    sel_done,               \* TRUE once weighted_choice has been called
    reqs,                   \* the streaming requests: request id -> its StreamHandler
    ticks,                  \* how often the clock has advanced
    stream,                 \* process_stream: where the response generator stands
    consumer,               \* consume_upstream: where the task stands, the chunks read
    gen,                    \* generate_small_chunks: its position and locals
    response_queue,         \* StreamHandler.response_queue
    upstream_complete,      \* StreamHandler.upstream_complete
    first_token,            \* StreamHandler.first_token
    stream_record,          \* StreamHandler.request_record
    current_message_id,     \* StreamHandler.current_message_id and current_model are set
    out,                    \* what the client has been sent
    recorded,               \* how often process_stream has called record_model_request
    in_memory_db,           \* index.py:163, the stored api_configs and model_mappings
    http_request,           \* the request a route handler was called with
    http_response,          \* what the route handler answered
    inbound,                \* openai_proxy after the selection: body, headers, config, actual_model
    upstream_request        \* openai_proxy: url, headers and body of the request it forwards

storeVars == <<redis_client, redis_db, redis_exp, model_request_history, heap>>
selVars == <<sel_pairs, sel_map, sel_valid, sel_weights, sel_out, sel_time, sel_done>>
reqVars == <<reqs, ticks>>
streamVars ==
    <<stream, consumer, gen, response_queue, upstream_complete, first_token,
      stream_record, current_message_id, out, recorded>>
apiVars == <<in_memory_db, http_request, http_response, inbound, upstream_request>>
vars == <<now, storeVars, selVars, reqVars, streamVars, apiVars>>

----------------------------------------------------------------------------
(* Bounds of the model *)

\* longest leading run of failures among the windows SelSpec draws
MaxRun == 11
\* longest candidate list SelSpec draws
MaxCandidates == 2
\* streaming requests of Spec
MaxReq == 2
\* clock advances of Spec and StreamSpec
MaxTicks == 2
\* chunks the upstream response of StreamSpec delivers
MaxChunks == 2

----------------------------------------------------------------------------
(* Program constants *)

max_records == 50
TIMEOUT_SECONDS == 60
max_age == 72 * 60 * 60 * 1000

fail_count_to_cooldown ==
    (3 :> 5 * 60) @@ (4 :> 10 * 60) @@ (5 :> 30 * 60) @@ (6 :> 2 * 60 * 60)
    @@ (7 :> 6 * 60 * 60) @@ (8 :> 24 * 60 * 60) @@ (9 :> 48 * 60 * 60)

----------------------------------------------------------------------------
(* Records, windows, candidates *)

ModelRequestRecord(id, t, ok, rt) ==
    [request_id |-> id, request_time |-> t, request_success |-> ok, first_token_rt |-> rt]

\* A candidate is a (config, actual-model) pair; of the config only its id matters here.
Pair(id, m) == [id |-> id, model |-> m]

\* md5 of "<id>-<model>": one key per (config id, model name)
build_model_key(config_id, model_name) == <<config_id, model_name>>

build_model_request_record_key(config_id, model_name) ==
    <<"request_r_">> \o build_model_key(config_id, model_name)

KeyOf(p) == build_model_request_record_key(p.id, p.model)

\* what the selector returns besides a pair
NonePair == Pair("None", "None")
ZeroDivisionError == Pair("ZeroDivisionError", "raised")

Range(s) == {s[i] : i \in DOMAIN s}

RECURSIVE SumSeq(_)
SumSeq(s) == IF s = <<>> THEN 0 ELSE s[1] + SumSeq(Tail(s))

Max(a, b) == IF a >= b THEN a ELSE b

\* dict.get(key) on the history map; a missing key, None and an empty deque are all falsy
MapGet(map, key) == IF key \in DOMAIN map THEN map[key] ELSE <<>>

----------------------------------------------------------------------------
(* The selector: index.py:864-983 *)

RECURSIVE count_recent_consecutive_failures(_)
count_recent_consecutive_failures(request_record_history) ==
    IF request_record_history = <<>> THEN 0
    ELSE IF ~request_record_history[1].request_success
         THEN 1 + count_recent_consecutive_failures(Tail(request_record_history))
         ELSE 0

cooldown_seconds(recent_fail_count) ==
    IF recent_fail_count \in DOMAIN fail_count_to_cooldown
    THEN fail_count_to_cooldown[recent_fail_count]
    ELSE 24 * 60 * 60

\* mutant: the cooldown compared with >= instead of >
cooled_down_at_boundary(h, t) ==
    t - h[1].request_time >= cooldown_seconds(count_recent_consecutive_failures(h)) * 1000

\* mutant: milliseconds compared with seconds
cooled_down_wrong_unit(h, t) ==
    t - h[1].request_time > cooldown_seconds(count_recent_consecutive_failures(h))

\* time.time() - h[0].request_time / 1000 > cooldown_seconds, in milliseconds
cooled_down(h, t) ==
    t - h[1].request_time > cooldown_seconds(count_recent_consecutive_failures(h)) * 1000

\* the loop body of filter_valid_config_model_pairs: is this candidate appended?
pair_is_valid(p, map, t) ==
    LET h == MapGet(map, KeyOf(p))
    IN  IF h # <<>>
        THEN IF count_recent_consecutive_failures(h) > 2 THEN cooled_down(h, t) ELSE TRUE
        ELSE TRUE

\* mutant: no fail-open, the filtered list is returned even when empty
filter_without_revert(config_model_pairs, model_request_map, t) ==
    IF config_model_pairs = <<>> THEN <<>>
    ELSE IF DOMAIN model_request_map = {} THEN config_model_pairs
    ELSE SelectSeq(config_model_pairs, LAMBDA p : pair_is_valid(p, model_request_map, t))

filter_valid_config_model_pairs(config_model_pairs, model_request_map, t) ==
    IF config_model_pairs = <<>> THEN <<>>
    ELSE IF DOMAIN model_request_map = {} THEN config_model_pairs
    ELSE LET valid_config_model_pairs ==
                 SelectSeq(config_model_pairs, LAMBDA p : pair_is_valid(p, model_request_map, t))
         IN  IF valid_config_model_pairs = <<>> THEN config_model_pairs
             ELSE valid_config_model_pairs

\* mutant: a history without a success weighs nothing
weight_zero_without_success(history_records) ==
    IF history_records = <<>> THEN <<1, 1>>
    ELSE LET n == Len(history_records)
             success_count == Cardinality({i \in 1..n : history_records[i].request_success})
             successful_requests ==
                 SelectSeq(history_records,
                           LAMBDA r : r.request_success /\ r.first_token_rt > 0)
             ns == Len(successful_requests)
             total_rt == SumSeq([i \in 1..ns |-> successful_requests[i].first_token_rt])
         IN  IF ns = 0 THEN <<0, n>>
             ELSE <<200 * ns * success_count * success_count,
                    Max(total_rt, 100 * ns) * n * n>>

\* The weight of one candidate as a fraction <<numerator, denominator>>:
\* 1.0 without history, 0.2 / len without a success with first_token_rt > 0, else
\* (200 / max(avg, 100)) * success_rate ** 2 with avg = total_rt / ns.
weight(history_records) ==
    IF history_records = <<>> THEN <<1, 1>>
    ELSE LET n == Len(history_records)
             success_count == Cardinality({i \in 1..n : history_records[i].request_success})
             successful_requests ==
                 SelectSeq(history_records,
                           LAMBDA r : r.request_success /\ r.first_token_rt > 0)
             ns == Len(successful_requests)
             total_rt == SumSeq([i \in 1..ns |-> successful_requests[i].first_token_rt])
         IN  IF ns = 0 THEN <<1, 5 * n>>
             ELSE <<200 * ns * success_count * success_count,
                    Max(total_rt, 100 * ns) * n * n>>

weights_of(valid, map) == [i \in 1..Len(valid) |-> weight(MapGet(map, KeyOf(valid[i])))]

\* random.choices(valid, weights = normalized): any element of positive weight;
\* sum(weights) = 0 makes the normalisation divide by zero
random_choices(valid, weights) ==
    IF \A i \in 1..Len(weights) : weights[i][1] = 0 THEN {ZeroDivisionError}
    ELSE {valid[i] : i \in {j \in 1..Len(valid) : weights[j][1] > 0}}

\* mutant: the guard on the candidate list off by one
weighted_choice_off_by_one(config_model_pairs, model_request_map, t) ==
    IF Len(config_model_pairs) <= 1 THEN {NonePair}
    ELSE LET valid == filter_valid_config_model_pairs(config_model_pairs, model_request_map, t)
         IN  IF Len(valid) = 1 THEN {valid[1]}
             ELSE random_choices(valid, weights_of(valid, model_request_map))

\* weighted_choice: the set of values one call can return
weighted_choice(config_model_pairs, model_request_map, t) ==
    IF config_model_pairs = <<>> THEN {NonePair}
    ELSE LET valid == filter_valid_config_model_pairs(config_model_pairs, model_request_map, t)
         IN  IF Len(valid) = 1 THEN {valid[1]}
             ELSE random_choices(valid, weights_of(valid, model_request_map))

\* One call of weighted_choice at time t, its locals kept for inspection.
Choose(pairs, map, t) ==
    /\ sel_pairs' = pairs
    /\ sel_map' = map
    /\ sel_valid' = filter_valid_config_model_pairs(pairs, map, t)
    /\ sel_weights' = IF Len(sel_valid') = 1 THEN <<>> ELSE weights_of(sel_valid', map)
    /\ sel_out' \in weighted_choice(pairs, map, t)
    /\ sel_time' = t
    /\ sel_done' = TRUE

----------------------------------------------------------------------------
(* SelSpec: weighted_choice on bounded inputs *)

T0 == max_age

SelPairs == {Pair("c1", "m"), Pair("c2", "m")}

Fails(f, t) == [i \in 1..f |-> ModelRequestRecord(0, t - (i - 1), FALSE, -1)]

\* windows whose newest record is of time t
SelWindows(t) ==
    {<<>>}
    \cup {Fails(f, t) : f \in 1..MaxRun}
    \cup {Fails(f, t) \o <<ModelRequestRecord(0, t - f, TRUE, rt)>> :
             f \in {0, 2, 3}, rt \in {0, 50, 500}}
    \cup {Fails(3, t) \o <<ModelRequestRecord(0, t - 3, TRUE, 500),
                           ModelRequestRecord(0, t - 4, FALSE, -1)>>}

\* the instants around the end of a window's cooldown
SelTimes(h) ==
    {T0} \cup {T0 + cooldown_seconds(count_recent_consecutive_failures(h)) * 1000 + d :
                  d \in {-1, 0, 1}}

\* batch_get_model_request_record by value: the local backend answers every key
\* (None when it has none), the remote one only the keys it holds
MapOf(raw, remote) ==
    IF remote THEN [k \in {x \in DOMAIN raw : raw[x] # <<>>} |-> raw[k]] ELSE raw

\* no StreamHandler has been constructed
NoRecord == ModelRequestRecord(0, 0, FALSE, -1)

StreamHandler_init(at) ==
    /\ stream = at
    /\ consumer = [pc |-> "none", read |-> <<>>]
    /\ gen = [pc |-> "none", timeout |-> "timed", no_delay |-> FALSE, done_sent |-> FALSE,
              pending |-> <<>>, then |-> "loop"]
    /\ response_queue = <<>>
    /\ upstream_complete = FALSE
    /\ first_token = FALSE
    /\ stream_record = NoRecord
    /\ current_message_id = FALSE
    /\ out = <<>>
    /\ recorded = 0

StreamIdle == StreamHandler_init("none")

StoreIdle ==
    /\ redis_db = <<>>
    /\ redis_exp = <<>>
    /\ model_request_history = <<>>
    /\ heap = <<>>

\* the route handlers' state before any request
\* None, for a header, a cookie or a body field that is not there
None == "None"

\* the Authorization header: given = FALSE when request.headers.get returns None
\* or ""; words is what auth_header.split() returns
NoHeader == [given |-> FALSE, words |-> <<>>]
Header(words) == [given |-> TRUE, words |-> words]

\* dicts of one entry, and the empty dict
Dict(k, v) == (k :> v)
EmptyDict == <<>>

HttpRequest(route, auth_header, auth_key, model, is_stream) ==
    [route |-> route, auth_header |-> auth_header, auth_key |-> auth_key,
     model |-> model, is_stream |-> is_stream]

\* looked_up: get_config_model_pairs was called; forwarded: a request was sent upstream
\* kv: which read of the key-value store raised while the request was handled
HttpResponse(status_code, looked_up, forwarded) ==
    [status_code |-> status_code, looked_up |-> looked_up, forwarded |-> forwarded,
     kv |-> "ok"]

NoRequest == HttpRequest(None, NoHeader, None, "", FALSE)
NoResponse == HttpResponse(0, FALSE, FALSE)

\* nothing has been selected, nothing is forwarded
NoInbound == [body |-> <<>>, headers |-> <<>>, config |-> <<>>, actual_model |-> None]
NoUpstream == [sent |-> FALSE, url |-> <<>>, headers |-> <<>>, body |-> <<>>]

ApiIdle ==
    /\ in_memory_db = [api_configs |-> <<>>, model_mappings |-> EmptyDict]
    /\ http_request = NoRequest
    /\ http_response = NoResponse
    /\ inbound = NoInbound
    /\ upstream_request = NoUpstream

SelInit ==
    /\ redis_client \in BOOLEAN
    /\ StoreIdle
    /\ \E n \in 1..MaxCandidates : sel_pairs \in [1..n -> SelPairs]
    /\ \E raw \in [{KeyOf(p) : p \in SelPairs} -> SelWindows(T0)] :
          /\ sel_map = MapOf(raw, redis_client)
          /\ now \in SelTimes(raw[KeyOf(sel_pairs[1])])
    /\ sel_valid = <<>>
    /\ sel_weights = <<>>
    /\ sel_out = NonePair
    /\ sel_time = now
    /\ sel_done = FALSE
    /\ reqs = <<>>
    /\ ticks = 0
    /\ StreamIdle
    /\ ApiIdle

Select ==
    /\ ~sel_done
    /\ Choose(sel_pairs, sel_map, now)
    /\ UNCHANGED <<now, storeVars, reqVars, streamVars, apiVars>>

SelNext == Select

SelSpec == SelInit /\ [][SelNext]_vars

----------------------------------------------------------------------------
(* The history log: index.py:497-554 and 819-861 *)

Candidates == <<Pair("c1", "m"), Pair("c2", "m")>>

AllKeys == {KeyOf(p) : p \in Range(Candidates)}

\* current_request_history as a request holds it: None, the stored deque object
\* itself (local backend), or a deque deserialised for this request (remote backend)
NoHist == [tag |-> "none", ref |-> 0, val |-> <<>>]
RefHist(o) == [tag |-> "ref", ref |-> o, val |-> <<>>]
ValHist(w) == [tag |-> "val", ref |-> 0, val |-> w]

WindowOf(h) ==
    CASE h.tag = "ref" -> heap[h.ref]
      [] h.tag = "val" -> h.val
      [] OTHER -> <<>>

\* batch_get_model_request_record; mget_ok = FALSE: redis_client.mget raised
batch_get_model_request_record(model_key_list, mget_ok) ==
    IF redis_client
    THEN IF mget_ok
         THEN [k \in {x \in model_key_list : now < redis_exp[x]} |-> ValHist(redis_db[k])]
         ELSE <<>>
    ELSE [k \in model_key_list |->
             IF model_request_history[k] = 0 THEN NoHist
             ELSE RefHist(model_request_history[k])]

\* mutant: one record too many survives the truncation
keep_newest_off_by_one(records) ==
    IF Len(records) > max_records + 1 THEN SubSeq(records, 1, max_records + 1) ELSE records

\* mutant: no record is too old to be kept
within_any_age(records, current_time) == records

\* while len(filtered_records) > max_records: filtered_records.pop()
keep_newest(records) ==
    IF Len(records) > max_records THEN SubSeq(records, 1, max_records) ELSE records

\* the records not older than 72h at current_time
within_max_age(records, current_time) ==
    SelectSeq(records, LAMBDA r : current_time - r.request_time <= max_age)

\* record_model_request; set_ok = FALSE: redis_client.set raised
record_model_request(model_key, request_record, history_records, set_ok) ==
    LET appended == <<request_record>> \o WindowOf(history_records)
        \* appendleft acts on the deque object passed in
        heap1 == IF history_records.tag = "ref"
                 THEN [heap EXCEPT ![history_records.ref] = appended]
                 ELSE heap
        filtered_records == keep_newest(within_max_age(appended, now))
    IN  IF redis_client /\ set_ok
        THEN /\ redis_db' = [redis_db EXCEPT ![model_key] = filtered_records]
             /\ redis_exp' = [redis_exp EXCEPT ![model_key] = now + max_age]
             /\ heap' = heap1
             /\ UNCHANGED <<redis_client, model_request_history>>
        ELSE /\ heap' = Append(heap1, filtered_records)
             /\ model_request_history' =
                    [model_request_history EXCEPT ![model_key] = Len(heap1) + 1]
             /\ UNCHANGED <<redis_client, redis_db, redis_exp>>

----------------------------------------------------------------------------
(* Spec: streaming requests sharing the history log *)

ReqIds == 1..MaxReq

IdleReq ==
    [phase |-> "idle", is_stream |-> TRUE, pair |-> NonePair, hist |-> NoHist,
     loaded |-> <<>>, start |-> 0, first_token |-> FALSE, first_token_rt |-> -1, status_code |-> 0,
     appends |-> 0]

TickSteps == {1, 5 * 60 * 1000, max_age - 1}

\* a window of max_records records, one second apart, every fifth a failure
FullWindow(t) ==
    [i \in 1..max_records |->
        ModelRequestRecord(0, t - 1000 * i, i % 5 # 0, IF i % 5 # 0 THEN 300 ELSE -1)]

\* windows earlier requests have left behind
SeedWindows(k, t) ==
    IF k = KeyOf(Candidates[1])
    THEN {<<>>, Fails(3, t), FullWindow(t)}
    ELSE {<<>>, <<ModelRequestRecord(0, t - 1000, TRUE, 300)>>}

Init ==
    /\ now = T0
    /\ ticks = 0
    /\ redis_client \in BOOLEAN
    /\ \E seed \in {f \in [AllKeys -> SeedWindows(KeyOf(Candidates[1]), T0)
                                         \cup SeedWindows(KeyOf(Candidates[2]), T0)] :
                        \A k \in AllKeys : f[k] \in SeedWindows(k, T0)} :
          LET held == {k \in AllKeys : seed[k] # <<>>}
              order == CHOOSE f \in [1..Cardinality(held) -> held] :
                           \A i, j \in DOMAIN f : i # j => f[i] # f[j]
              index(k) == CHOOSE i \in DOMAIN order : order[i] = k
          IN  IF redis_client
              THEN /\ redis_db = seed
                   /\ redis_exp = [k \in AllKeys |-> IF k \in held THEN T0 + max_age ELSE 0]
                   /\ model_request_history = [k \in AllKeys |-> 0]
                   /\ heap = <<>>
              ELSE /\ redis_db = [k \in AllKeys |-> <<>>]
                   /\ redis_exp = [k \in AllKeys |-> 0]
                   /\ model_request_history =
                          [k \in AllKeys |-> IF k \in held THEN index(k) ELSE 0]
                   /\ heap = [i \in 1..Cardinality(held) |-> seed[order[i]]]
    /\ sel_pairs = <<>>
    /\ sel_map = <<>>
    /\ sel_valid = <<>>
    /\ sel_weights = <<>>
    /\ sel_out = NonePair
    /\ sel_time = 0
    /\ sel_done = FALSE
    /\ reqs = [r \in ReqIds |-> IdleReq]
    /\ StreamIdle
    /\ ApiIdle

\* time passes
Tick ==
    /\ ticks < MaxTicks
    /\ \E d \in TickSteps : now' = now + d
    /\ ticks' = ticks + 1
    /\ UNCHANGED <<storeVars, selVars, reqs, streamVars, apiVars>>

\* openai_proxy up to StreamHandler(...): load the histories, select, start the clock
Arrive(r) ==
    /\ reqs[r].phase = "idle"
    /\ \A q \in ReqIds : q < r => reqs[q].phase # "idle"
    /\ \E mget_ok, is_stream \in BOOLEAN :
          LET model_request_map == batch_get_model_request_record(AllKeys, mget_ok)
              by_value == [k \in DOMAIN model_request_map |-> WindowOf(model_request_map[k])]
          IN  /\ Choose(Candidates, by_value, now)
              /\ reqs' = [reqs EXCEPT ![r] =
                    IF sel_out' \in Range(Candidates)
                    THEN [phase |-> IF is_stream THEN "streaming" ELSE "forwarding",
                          is_stream |-> is_stream,
                          pair |-> sel_out',
                          hist |-> IF KeyOf(sel_out') \in DOMAIN model_request_map
                                   THEN model_request_map[KeyOf(sel_out')]
                                   ELSE NoHist,
                          \* the records current_request_history holds at this moment
                          loaded |-> MapGet(by_value, KeyOf(sel_out')),
                          start |-> now,
                          first_token |-> FALSE,
                          first_token_rt |-> -1,
                          status_code |-> 0,
                          appends |-> 0]
                    ELSE [IdleReq EXCEPT !.phase = "failed"]]
    /\ UNCHANGED <<now, ticks, storeVars, streamVars, apiVars>>

\* consume_upstream: the first non-empty chunk, which the HTTP client waits for no
\* longer than TIMEOUT_SECONDS; request_record is the object the deques hold once
\* it has been appended
FirstToken(r) ==
    /\ reqs[r].phase \in {"streaming", "recorded"}
    /\ ~reqs[r].first_token
    /\ now - reqs[r].start <= TIMEOUT_SECONDS * 1000
    /\ reqs' = [reqs EXCEPT ![r].first_token = TRUE,
                            ![r].first_token_rt = now - reqs[r].start]
    /\ heap' = [o \in DOMAIN heap |->
                   [i \in DOMAIN heap[o] |->
                       IF heap[o][i].request_id = r
                       THEN [heap[o][i] EXCEPT !.first_token_rt = now - reqs[r].start]
                       ELSE heap[o][i]]]
    /\ UNCHANGED <<now, ticks, selVars, redis_client, redis_db, redis_exp,
                   model_request_history, streamVars, apiVars>>

\* process_stream: the finally block
Finish(r) ==
    /\ reqs[r].phase = "streaming"
    /\ \E set_ok \in BOOLEAN :
          record_model_request(
              KeyOf(reqs[r].pair),
              ModelRequestRecord(r, reqs[r].start, reqs[r].first_token,
                                 IF reqs[r].first_token THEN reqs[r].first_token_rt ELSE -1),
              reqs[r].hist, set_ok)
    /\ reqs' = [reqs EXCEPT ![r].phase = "recorded", ![r].appends = @ + 1]
    /\ UNCHANGED <<now, ticks, selVars, streamVars, apiVars>>

\* openai_proxy, is_stream false: client.request returns and the upstream's answer
\* is passed on
Respond(r) ==
    /\ reqs[r].phase = "forwarding"
    /\ \E status_code \in {200, 500} :
          reqs' = [reqs EXCEPT ![r].phase = "answered", ![r].status_code = status_code]
    /\ UNCHANGED <<now, ticks, storeVars, selVars, streamVars, apiVars>>

Next ==
    \/ Tick
    \/ \E r \in ReqIds : Arrive(r)
    \/ \E r \in ReqIds : FirstToken(r)
    \/ \E r \in ReqIds : Finish(r)
    \/ \E r \in ReqIds : Respond(r)

Spec == Init /\ [][Next]_vars

----------------------------------------------------------------------------
(* Claims about the selector, checked under SelSpec *)

HistoryOf(p) == MapGet(sel_map, KeyOf(p))

LeadingFailures(p) == count_recent_consecutive_failures(HistoryOf(p))

NewestAge(p) == sel_time - HistoryOf(p)[1].request_time

\* the cooldown table as the specification states it, in milliseconds
ClaimedCooldown(f) ==
    CASE f = 3 -> 5 * 60 * 1000
      [] f = 4 -> 10 * 60 * 1000
      [] f = 5 -> 30 * 60 * 1000
      [] f = 6 -> 2 * 60 * 60 * 1000
      [] f = 7 -> 6 * 60 * 60 * 1000
      [] f = 8 -> 24 * 60 * 60 * 1000
      [] f = 9 -> 48 * 60 * 60 * 1000
      [] OTHER -> 24 * 60 * 60 * 1000

Kept(p) == p \in Range(sel_valid)

\* the candidate is inside its cooldown: the breaker is open for it
CircuitBroken(p) ==
    /\ HistoryOf(p) # <<>>
    /\ LeadingFailures(p) >= 3
    /\ NewestAge(p) <= ClaimedCooldown(LeadingFailures(p))

AllBroken == \A p \in Range(sel_pairs) : CircuitBroken(p)

AllFailures(p) ==
    /\ HistoryOf(p) # <<>>
    /\ \A i \in DOMAIN HistoryOf(p) : ~HistoryOf(p)[i].request_success

\* C2: for a non-empty candidate list and any history map, weighted_choice returns one
\* element of the input list and does not fail; every weight it computes is strictly
\* positive, so the sum it divides by is not zero.
C2_SelectorClosure ==
    sel_done =>
        /\ sel_out \in Range(sel_pairs)
        /\ \A i \in DOMAIN sel_weights : sel_weights[i][1] > 0 /\ sel_weights[i][2] > 0

\* C2 witness: the draw ran over two candidates that both have all-failure histories.
C2_Witness ==
    /\ sel_done
    /\ Len(sel_weights) = 2
    /\ \A p \in Range(sel_valid) : AllFailures(p)
    /\ sel_out \in Range(sel_pairs)

\* C3 as stated (with >=): unless every candidate is rejected and the list reverts,
\* a candidate with history is kept iff f <= 2 or its newest record is at least
\* cooldown(f) old; one without history is kept.
C3_KeptAtCooldown ==
    (sel_done /\ ~AllBroken) =>
        \A p \in Range(sel_pairs) :
            IF HistoryOf(p) = <<>> THEN Kept(p)
            ELSE Kept(p) <=> (\/ LeadingFailures(p) <= 2
                              \/ NewestAge(p) >= ClaimedCooldown(LeadingFailures(p)))

\* C3 amended: unless every candidate is rejected and the list reverts, a candidate
\* with history is kept iff f <= 2 or its newest record is strictly more than
\* cooldown(f) old (5min, 10min, 30min, 2h, 6h, 24h, 48h for f = 3..9, 24h for
\* f >= 10); one without history is kept.
C3_KeptAfterCooldown ==
    (sel_done /\ ~AllBroken) =>
        \A p \in Range(sel_pairs) :
            IF HistoryOf(p) = <<>> THEN Kept(p)
            ELSE Kept(p) <=> (\/ LeadingFailures(p) <= 2
                              \/ NewestAge(p) > ClaimedCooldown(LeadingFailures(p)))

\* C3 witness: one candidate just past its cooldown is kept while another, still
\* inside a longer cooldown, is dropped.
C3_Witness ==
    /\ sel_done
    /\ \E p, q \in Range(sel_pairs) :
          /\ LeadingFailures(p) >= 3
          /\ NewestAge(p) = ClaimedCooldown(LeadingFailures(p)) + 1
          /\ Kept(p)
          /\ CircuitBroken(q)
          /\ ~Kept(q)

\* C5: when every candidate of a list of two or more is inside its cooldown, the
\* filter gives back the whole list, and the draw, with one positive weight per
\* element of that list, returns one of its elements.
C5_FailOpen ==
    (sel_done /\ Len(sel_pairs) >= 2 /\ AllBroken) =>
        /\ sel_valid = sel_pairs
        /\ Len(sel_weights) = Len(sel_pairs)
        /\ \A i \in DOMAIN sel_weights : sel_weights[i][1] > 0
        /\ sel_out \in Range(sel_pairs)

\* C5 witness: two distinct candidates, both inside their cooldown, the second drawn.
C5_Witness ==
    /\ sel_done
    /\ Len(sel_pairs) = 2
    /\ sel_pairs[1] # sel_pairs[2]
    /\ AllBroken
    /\ sel_out = sel_pairs[2]

\* C6: a list of one candidate yields that candidate, whatever its history.
C6_SingleCandidate ==
    (sel_done /\ Len(sel_pairs) = 1) => sel_out = sel_pairs[1]

\* C6 witness: the only candidate is inside its cooldown and is returned.
C6_Witness ==
    /\ sel_done
    /\ Len(sel_pairs) = 1
    /\ CircuitBroken(sel_pairs[1])
    /\ sel_out = sel_pairs[1]

----------------------------------------------------------------------------
(* Claims about the history log and the circuit breaker, checked under Spec *)

\* the request_time of the newest of the first n records of w
RECURSIVE NewestTime(_, _)
NewestTime(w, n) ==
    IF n = 1 THEN w[1].request_time
    ELSE Max(w[n].request_time, NewestTime(w, n - 1))

Min(a, b) == IF a <= b THEN a ELSE b

\* the request_time of the oldest of the first n records of w
RECURSIVE OldestTime(_, _)
OldestTime(w, n) ==
    IF n = 1 THEN w[1].request_time
    ELSE Min(w[n].request_time, OldestTime(w, n - 1))

\* the windows the two backends hold
StoredWindows ==
    {redis_db[k] : k \in AllKeys}
    \cup {heap[model_request_history[k]] : k \in {x \in AllKeys : model_request_history[x] # 0}}

\* p's newest record is younger than the cooldown of its leading failure run
Younger(p) ==
    /\ HistoryOf(p) # <<>>
    /\ LeadingFailures(p) >= 3
    /\ NewestAge(p) < ClaimedCooldown(LeadingFailures(p))

\* more than the cooldown has passed since p's newest record
Elapsed(p) ==
    /\ HistoryOf(p) # <<>>
    /\ LeadingFailures(p) >= 3
    /\ NewestAge(p) > ClaimedCooldown(LeadingFailures(p))

\* p can be the result of the selection: it is kept, and drawn with a weight above 0
Selectable(p) ==
    \E i \in DOMAIN sel_valid :
        sel_valid[i] = p /\ (Len(sel_valid) = 1 \/ sel_weights[i][1] > 0)

\* C4 as stated: while A has a leading failure run f >= 3 and its newest record is
\* younger than cooldown(f), and another candidate is not circuit-broken, no
\* request is routed to A; once cooldown(f) has elapsed since A's newest record,
\* A is selectable again.  Fails at the instant the age equals the cooldown.
C4_SelectableAtCooldown ==
    sel_done =>
        \A a \in Range(sel_pairs) :
            /\ (Younger(a) /\ \E b \in Range(sel_pairs) : b # a /\ ~Younger(b))
                   => sel_out # a
            /\ (/\ HistoryOf(a) # <<>>
                /\ LeadingFailures(a) >= 3
                /\ NewestAge(a) >= ClaimedCooldown(LeadingFailures(a)))
                   => Selectable(a)

\* C4 amended: while A has a leading failure run f >= 3 and its newest record is
\* no older than cooldown(f), and another candidate is not circuit-broken in
\* that same sense, no request is routed to A; once more than cooldown(f) has
\* passed since A's newest record, A is selectable again.
C4_SelectableAfterCooldown ==
    sel_done =>
        \A a \in Range(sel_pairs) :
            /\ (CircuitBroken(a) /\ \E b \in Range(sel_pairs) : b # a /\ ~CircuitBroken(b))
                   => sel_out # a
            /\ Elapsed(a) => Selectable(a)

\* a request was routed past A while A was circuit-broken, and a later request is
\* routed to A after its cooldown
C4_Witness ==
    /\ sel_done
    /\ \E a \in Range(sel_pairs) :
          /\ Elapsed(a)
          /\ sel_out = a
          /\ \E r \in ReqIds :
                /\ reqs[r].phase \in {"streaming", "recorded"}
                /\ reqs[r].pair # a
                /\ reqs[r].start < sel_time
                /\ reqs[r].start - HistoryOf(a)[1].request_time
                       <= ClaimedCooldown(LeadingFailures(a))

\* C7: for every history key, after any sequence of appends in any interleaving
\* of requests, the stored window holds at most 50 records and every stored
\* record's request_time is within 72h of the newest stored record's.
C7_WindowBounds ==
    \A w \in StoredWindows :
        /\ Len(w) <= 50
        /\ w # <<>> =>
              NewestTime(w, Len(w)) - OldestTime(w, Len(w)) <= 72 * 60 * 60 * 1000

\* a request's record was appended to a window that was full
C7_Witness ==
    \E w \in StoredWindows : Len(w) = 50 /\ w[1].request_id \in ReqIds

\* an append dropped a record for its age
C7_AgeTrimmed ==
    \E w \in StoredWindows :
        /\ Len(w) = 3
        /\ w[1].request_id \in ReqIds
        /\ w[3].request_time = T0 - 1

\* C8: every stored history window is ordered newest-first, request_time
\* non-increasing from head to tail, also when a request that started earlier
\* finishes later than one that started after it.
C8_NewestFirst ==
    \A w \in StoredWindows :
        \A i \in 1..(Len(w) - 1) : w[i].request_time >= w[i + 1].request_time

\* C9: whenever a history window is read for selection, every record in it
\* satisfies now - request_time <= 72h.
C9_LoadedWithinMaxAge ==
    sel_done =>
        \A k \in DOMAIN sel_map :
            \A i \in DOMAIN sel_map[k] :
                sel_time - sel_map[k][i].request_time <= 72 * 60 * 60 * 1000

\* C11: every completed forward appends a record to the selected pair's history
\* window, for non-streaming requests as well as streaming ones.
C11_EveryForwardRecorded ==
    \A r \in ReqIds :
        reqs[r].phase \in {"recorded", "answered"} => reqs[r].appends = 1

\* the window the backend in use holds for key k
StoredWindow(k) ==
    IF redis_client THEN redis_db[k]
    ELSE IF model_request_history[k] = 0 THEN <<>>
    ELSE heap[model_request_history[k]]

\* the record request r appends
RecordOf(r) ==
    ModelRequestRecord(r, reqs[r].start, reqs[r].first_token,
                       IF reqs[r].first_token THEN reqs[r].first_token_rt ELSE -1)

\* the newest 50 of the records of w that are at most 72h old at time t
Last72h50(w, t) ==
    LET young == SelectSeq(w, LAMBDA x : t - x.request_time <= 72 * 60 * 60 * 1000)
    IN  IF Len(young) > 50 THEN SubSeq(young, 1, 50) ELSE young

\* this step is the append of request r, and the backend took it
Writes(r) ==
    /\ reqs[r].phase = "streaming"
    /\ reqs'[r].phase = "recorded"
    /\ ~(redis_client /\ model_request_history' # model_request_history)

\* q has appended to the pair of r and r loaded the window before that
Overlapped(q, r) ==
    /\ q # r
    /\ reqs[q].phase = "recorded"
    /\ reqs[q].pair = reqs[r].pair
    /\ \A i \in DOMAIN reqs[r].loaded : reqs[r].loaded[i].request_id # q

\* the records of the deque object r was handed, as they are now
HeldBy(r) ==
    IF reqs[r].hist.tag = "ref" THEN heap[reqs[r].hist.ref] ELSE reqs[r].loaded

ClaimedWeight(h) ==
    IF h = <<>> THEN <<1, 1>>
    ELSE LET n == Len(h)
             successes == SelectSeq(h, LAMBDA r : r.request_success)
             sc == Len(successes)
             total == SumSeq([i \in 1..sc |-> successes[i].first_token_rt])
         IN  IF sc = 0 THEN <<2, 10 * n>>
             ELSE <<200 * sc * sc * sc, Max(total, 100 * sc) * n * n>>

SameFraction(a, b) == a[1] * b[2] = a[2] * b[1]

\* C25: the weight of every surviving candidate is 1.0 without history,
\* 0.2 / |history| without a successful record, and otherwise
\* (200 / max(avg, 100)) * sr^2 over all successful records, those with
\* first_token_rt = 0 included.
C25_WeightFormula ==
    sel_done =>
        \A i \in DOMAIN sel_weights :
            SameFraction(sel_weights[i], ClaimedWeight(HistoryOf(sel_valid[i])))

\* the window a batch load of key k returns when the read itself succeeds
LoadedWindow(k) ==
    LET model_request_map == batch_get_model_request_record({k}, TRUE)
    IN  IF k \in DOMAIN model_request_map THEN WindowOf(model_request_map[k]) ELSE <<>>

\* C34: right after record_model_request(key, r, w) has returned, a batch load
\* of key returns a window whose newest record is r, also when the remote
\* write failed and the window went to the local fallback.
C34_ReadYourWrites ==
    [][\A r \in ReqIds :
          (reqs[r].phase = "streaming" /\ reqs'[r].phase = "recorded")
          => /\ LoadedWindow(KeyOf(reqs[r].pair))' # <<>>
             /\ LoadedWindow(KeyOf(reqs[r].pair))'[1] = RecordOf(r)]_vars

\* C31: every weight weighted_choice computes is at least 0.1, whatever the
\* candidate's history.
C31_MinimumWeight ==
    sel_done =>
        \A i \in DOMAIN sel_weights : 10 * sel_weights[i][1] >= sel_weights[i][2]

----------------------------------------------------------------------------
(* StreamSpec: one StreamHandler, stream_handler.py *)

StreamId == 1

StreamKey == KeyOf(Candidates[1])

request_start_time == T0

\* the text of a delta field, as its sequence of characters
Str2 == <<"a", "b">>
Str4 == <<"a", "b", "c", "d">>
Rsn2 == <<"x", "y">>

\* one SSE record of the upstream body, "data: <json>": whether the json has id
\* and model, delta.content, delta.reasoning_content, finish_reason
SSE(ident, content, reasoning_content, finish_reason) ==
    [kind |-> "json", ident |-> ident, content |-> content,
     reasoning_content |-> reasoning_content, finish_reason |-> finish_reason]

\* "data: [DONE]"
DoneRecord == [SSE(FALSE, <<>>, <<>>, None) EXCEPT !.kind = "[DONE]"]

\* a record whose delta.content is a dict: len() accepts it, text[i:i + 3] raises
Unsliceable == [SSE(TRUE, <<>>, <<>>, None) EXCEPT !.kind = "unsliceable"]

Records ==
    {SSE(TRUE, Str4, <<>>, None),
     SSE(TRUE, Str2, Rsn2, None),
     SSE(FALSE, <<>>, Rsn2, None),
     SSE(TRUE, Str2, <<>>, "length"),
     SSE(TRUE, <<>>, <<>>, "stop"),
     SSE(TRUE, <<>>, <<>>, None),
     Unsliceable,
     DoneRecord}

\* what one chunk of response.aiter_bytes() can be: the bytes of one record, of
\* two records that arrive together, or no bytes
Chunks ==
    {<<>>}
    \cup {<<r>> : r \in Records}
    \cup {<<r, DoneRecord>> : r \in {SSE(TRUE, Str4, <<>>, None), SSE(TRUE, Str2, Rsn2, None)}}

\* extract_content_from_chunk: the prefix "data: " is cut off once and the rest
\* is compared with [DONE] or parsed as one json value; json.loads raises when
\* another record follows the first, and the except branch answers without text
extract_content_from_chunk(chunk_data) ==
    IF chunk_data = <<>> \/ Len(chunk_data) > 1
    THEN [is_done |-> FALSE, kind |-> "json", ident |-> FALSE,
          content |-> <<>>, reasoning_content |-> <<>>]
    ELSE IF chunk_data[1].kind = "[DONE]"
    THEN [is_done |-> TRUE, kind |-> "json", ident |-> FALSE,
          content |-> <<>>, reasoning_content |-> <<>>]
    ELSE [is_done |-> FALSE, kind |-> chunk_data[1].kind, ident |-> chunk_data[1].ident,
          content |-> chunk_data[1].content,
          reasoning_content |-> chunk_data[1].reasoning_content]

\* an item of response_queue: a parsed chunk (kind content or unsliceable), or the
\* bytes of an error message or of [DONE]; rec is the number of the upstream
\* chunk it was made from
QueueItem(kind, ident, content, reasoning_content, rec) ==
    [kind |-> kind, ident |-> ident, content |-> content,
     reasoning_content |-> reasoning_content, rec |-> rec]

ErrorMsg == QueueItem("error", FALSE, <<>>, <<>>, 0)

DoneMsg == QueueItem("done", FALSE, <<>>, <<>>, 0)

\* what the client is sent: a record with one delta field, the record with
\* finish_reason and an empty delta, [DONE], an error message
Emitted(type, field, text, rec, finish_reason) ==
    [type |-> type, field |-> field, text |-> text, rec |-> rec,
     finish_reason |-> finish_reason]

Delta(field, small_chunk, rec) == Emitted("delta", field, small_chunk, rec, None)
FinishOut == Emitted("finish", None, <<>>, 0, "stop")
DoneOut == Emitted("DONE", None, <<>>, 0, None)
ErrorOut == Emitted("error", None, <<>>, 0, None)

\* for i in range(0, len(text), 3): text[i:i + 3]
RECURSIVE small_chunks(_)
small_chunks(text) ==
    IF text = <<>> THEN <<>>
    ELSE IF Len(text) <= 3 THEN <<text>>
    ELSE <<SubSeq(text, 1, 3)>> \o small_chunks(SubSeq(text, 4, Len(text)))

responses_of(field, text, rec) ==
    [i \in DOMAIN small_chunks(text) |-> Delta(field, small_chunks(text)[i], rec)]

\* mutant: the fields are taken in the order reasoning_content, content
process_chunk_reasoning_first(chunk_data) ==
    responses_of("reasoning_content", chunk_data.reasoning_content, chunk_data.rec)
    \o responses_of("content", chunk_data.content, chunk_data.rec)

\* process_chunk on a parsed chunk: responses
process_chunk(chunk_data) ==
    responses_of("content", chunk_data.content, chunk_data.rec)
    \o responses_of("reasoning_content", chunk_data.reasoning_content, chunk_data.rec)

StreamInit ==
    /\ now = T0
    /\ ticks = 0
    /\ redis_client \in BOOLEAN
    /\ redis_db = [k \in AllKeys |-> <<>>]
    /\ redis_exp = [k \in AllKeys |-> 0]
    /\ model_request_history = [k \in AllKeys |-> 0]
    /\ heap = <<>>
    /\ sel_pairs = <<>>
    /\ sel_map = <<>>
    /\ sel_valid = <<>>
    /\ sel_weights = <<>>
    /\ sel_out = NonePair
    /\ sel_time = 0
    /\ sel_done = FALSE
    /\ reqs = <<>>
    /\ StreamHandler_init("new")
    /\ ApiIdle

\* remaining_time < 3
Late == TIMEOUT_SECONDS * 1000 - (now - request_start_time) - 5 * 1000 < 3 * 1000

\* the head of the while loop up to the await on the queue
LoopTop ==
    [gen EXCEPT !.pc = "get",
                !.no_delay = Late \/ upstream_complete,
                !.timeout = IF upstream_complete THEN "none" ELSE "timed",
                !.pending = <<>>,
                !.then = "loop"]

\* mutant: [DONE] is sent before the finish_reason message
DoneAndFinish(known) == <<DoneOut>> \o (IF known THEN <<FinishOut>> ELSE <<>>)

\* the finish_reason message, sent when id and model are known, and [DONE]
FinishAndDone(known) == (IF known THEN <<FinishOut>> ELSE <<>>) \o <<DoneOut>>

\* run up to the yield of the first of items
Yield(items, then) ==
    /\ out' = Append(out, Head(items))
    /\ gen' = [gen EXCEPT !.pc = "yield", !.pending = Tail(items), !.then = then]

\* run up to asyncio.sleep before the first of items
Sleep(items, then) ==
    /\ out' = out
    /\ gen' = [gen EXCEPT !.pc = "sleep", !.pending = items, !.then = then]

\* time passes while the response is streamed
StreamSteps == {1, TIMEOUT_SECONDS * 1000}

StreamTick ==
    /\ ticks < MaxTicks
    /\ \E d \in StreamSteps : now' = now + d
    /\ ticks' = ticks + 1
    /\ UNCHANGED <<storeVars, selVars, reqs, streamVars, apiVars>>

\* process_stream up to the first await of generate_small_chunks
StartStream ==
    /\ stream = "new"
    /\ stream' = "iter"
    /\ stream_record' = ModelRequestRecord(StreamId, request_start_time, FALSE, -1)
    /\ consumer' = [pc |-> "connect", read |-> <<>>]
    /\ gen' = LoopTop
    /\ UNCHANGED <<now, storeVars, selVars, reqVars, apiVars, response_queue, upstream_complete,
                   first_token, current_message_id, out, recorded>>

\* consume_upstream: client.stream(...) answers
ConsumerConnect ==
    /\ consumer.pc = "connect"
    /\ \E answer \in {"success", "status", "raise"} :
          /\ answer # "raise" => stream # "end"
          /\ IF answer = "success"
             THEN /\ consumer' = [consumer EXCEPT !.pc = "read"]
                  /\ UNCHANGED <<response_queue, upstream_complete>>
             ELSE /\ consumer' = [consumer EXCEPT !.pc = "done"]
                  /\ response_queue' = Append(response_queue, ErrorMsg)
                  /\ upstream_complete' = TRUE
    /\ UNCHANGED <<now, storeVars, selVars, reqVars, apiVars, stream, gen, first_token,
                   stream_record, current_message_id, out, recorded>>

\* consume_upstream: one chunk of response.aiter_bytes()
ConsumerRead ==
    /\ consumer.pc = "read"
    /\ Len(consumer.read) < MaxChunks
    /\ stream # "end"
    /\ \E chunk \in Chunks :
          /\ consumer' = [consumer EXCEPT !.read = Append(@, chunk)]
          /\ IF chunk # <<>> /\ ~first_token
             THEN /\ first_token' = TRUE
                  /\ stream_record' =
                         [stream_record EXCEPT !.first_token_rt = now - request_start_time]
                  \* the deque holds this very object once it has been appended
                  /\ heap' = [o \in DOMAIN heap |->
                                 [i \in DOMAIN heap[o] |->
                                     IF heap[o][i].request_id = StreamId
                                     THEN [heap[o][i] EXCEPT
                                              !.first_token_rt = now - request_start_time]
                                     ELSE heap[o][i]]]
             ELSE UNCHANGED <<first_token, stream_record, heap>>
          /\ LET parsed_chunk == extract_content_from_chunk(chunk)
                 rec == Len(consumer.read) + 1
             IN  response_queue' =
                   IF chunk = <<>> THEN response_queue
                   ELSE IF parsed_chunk.is_done THEN Append(response_queue, DoneMsg)
                   ELSE IF parsed_chunk.kind = "unsliceable"
                   THEN Append(response_queue,
                               QueueItem("unsliceable", parsed_chunk.ident, <<>>, <<>>, rec))
                   ELSE IF parsed_chunk.content # <<>> \/ parsed_chunk.reasoning_content # <<>>
                   THEN Append(response_queue,
                               QueueItem("content", parsed_chunk.ident, parsed_chunk.content,
                                         parsed_chunk.reasoning_content, rec))
                   ELSE response_queue
    /\ UNCHANGED <<now, redis_client, redis_db, redis_exp, model_request_history, selVars,
                   reqVars, apiVars, stream, gen, upstream_complete, current_message_id, out,
                   recorded>>

\* consume_upstream: the body ends, or reading it raises
ConsumerEnd ==
    /\ consumer.pc = "read"
    /\ \E raised \in BOOLEAN :
          response_queue' = IF raised THEN Append(response_queue, ErrorMsg)
                            ELSE response_queue
    /\ consumer' = [consumer EXCEPT !.pc = "done"]
    /\ upstream_complete' = TRUE
    /\ UNCHANGED <<now, storeVars, selVars, reqVars, apiVars, stream, gen, first_token,
                   stream_record, current_message_id, out, recorded>>

\* generate_small_chunks: queue.get() returns; the chunk is processed up to the
\* first yield or sleep
EmitGet ==
    /\ stream = "iter"
    /\ gen.pc = "get"
    /\ response_queue # <<>>
    /\ response_queue' = Tail(response_queue)
    /\ LET chunk_data == Head(response_queue)
       IN  CASE chunk_data.kind = "done" ->
                  /\ Yield(FinishAndDone(current_message_id), "break")
                  /\ UNCHANGED current_message_id
             [] chunk_data.kind = "error" ->
                  /\ Yield(<<ErrorOut>>, "break")
                  /\ UNCHANGED current_message_id
             [] chunk_data.kind = "unsliceable" ->
                  \* text[i:i + 3] raises: the except block of generate_small_chunks
                  /\ current_message_id' = chunk_data.ident
                  /\ Yield(<<ErrorOut>> \o FinishAndDone(chunk_data.ident), "break")
             [] OTHER ->
                  /\ current_message_id' = chunk_data.ident
                  /\ LET processed_chunks == process_chunk(chunk_data)
                     IN  \/ Yield(processed_chunks, "loop")
                         \/ ~gen.no_delay /\ Sleep(processed_chunks, "loop")
    /\ UNCHANGED <<now, storeVars, selVars, reqVars, apiVars, stream, consumer, upstream_complete,
                   first_token, stream_record, recorded>>

\* generate_small_chunks: the 0.1 s of wait_for are over
EmitTimeout ==
    /\ stream = "iter"
    /\ gen.pc = "get"
    /\ gen.timeout = "timed"
    /\ response_queue = <<>>
    /\ gen' = [gen EXCEPT !.pc = "timed_out"]
    /\ UNCHANGED <<now, storeVars, selVars, reqVars, apiVars, stream, consumer, response_queue,
                   upstream_complete, first_token, stream_record, current_message_id,
                   out, recorded>>

\* generate_small_chunks: except asyncio.TimeoutError
EmitAfterTimeout ==
    /\ stream = "iter"
    /\ gen.pc = "timed_out"
    /\ IF upstream_complete /\ response_queue = <<>> /\ ~gen.done_sent
       THEN Yield(FinishAndDone(current_message_id), "break")
       ELSE gen' = LoopTop /\ out' = out
    /\ UNCHANGED <<now, storeVars, selVars, reqVars, apiVars, stream, consumer, response_queue,
                   upstream_complete, first_token, stream_record, current_message_id,
                   recorded>>

\* generate_small_chunks: asyncio.sleep returns
EmitWake ==
    /\ stream = "iter"
    /\ gen.pc = "sleep"
    /\ Yield(gen.pending, gen.then)
    /\ UNCHANGED <<now, storeVars, selVars, reqVars, apiVars, stream, consumer, response_queue,
                   upstream_complete, first_token, stream_record, current_message_id,
                   recorded>>

\* the server has sent the chunk and asks for the next one
ServerNext ==
    /\ stream = "iter"
    /\ gen.pc = "yield"
    /\ IF gen.pending # <<>>
       THEN /\ IF gen.then = "loop" /\ ~gen.no_delay
               THEN Sleep(gen.pending, gen.then)
               ELSE Yield(gen.pending, gen.then)
            /\ stream' = stream
       ELSE IF gen.then = "loop"
       THEN gen' = LoopTop /\ out' = out /\ stream' = stream
       ELSE /\ gen' = [gen EXCEPT !.pc = "end", !.done_sent = TRUE]
            /\ out' = out
            \* await consumer_task
            /\ stream' = IF consumer.pc = "done" THEN "finally" ELSE "await_consumer"
    /\ UNCHANGED <<now, storeVars, selVars, reqVars, apiVars, consumer, response_queue,
                   upstream_complete, first_token, stream_record, current_message_id,
                   recorded>>

\* process_stream: consumer_task is done
ConsumerAwaited ==
    /\ stream = "await_consumer"
    /\ consumer.pc = "done"
    /\ stream' = "finally"
    /\ UNCHANGED <<now, storeVars, selVars, reqVars, apiVars, consumer, gen, response_queue,
                   upstream_complete, first_token, stream_record, current_message_id,
                   out, recorded>>

\* the client goes away: the response generator is closed where it is suspended.
\* Nothing cancels consumer_task, unless process_stream is awaiting it
Disconnect ==
    /\ \/ /\ stream = "iter"
          /\ gen' = [gen EXCEPT !.pc = "end"]
          /\ UNCHANGED <<consumer, upstream_complete>>
       \/ /\ stream = "await_consumer"
          /\ consumer' = [consumer EXCEPT !.pc = "done"]
          /\ upstream_complete' = TRUE
          /\ UNCHANGED gen
    /\ stream' = "finally"
    /\ UNCHANGED <<now, storeVars, selVars, reqVars, apiVars, response_queue, first_token,
                   stream_record, current_message_id, out, recorded>>

\* process_stream: the finally block up to await client.aclose()
Record ==
    /\ stream = "finally"
    /\ stream_record' =
           [stream_record EXCEPT !.request_success = first_token,
                                 !.first_token_rt = IF first_token THEN @ ELSE -1]
    /\ \E set_ok \in BOOLEAN :
          record_model_request(StreamKey, stream_record', NoHist, set_ok)
    /\ recorded' = recorded + 1
    /\ stream' = "aclose"
    /\ UNCHANGED <<now, selVars, reqVars, apiVars, consumer, gen, response_queue,
                   upstream_complete, first_token, current_message_id, out>>

\* process_stream: client.aclose() returns
Close ==
    /\ stream = "aclose"
    /\ stream' = "end"
    /\ UNCHANGED <<now, storeVars, selVars, reqVars, apiVars, consumer, gen, response_queue,
                   upstream_complete, first_token, stream_record, current_message_id,
                   out, recorded>>

StreamNext ==
    \/ StreamTick
    \/ StartStream
    \/ ConsumerConnect
    \/ ConsumerRead
    \/ ConsumerEnd
    \/ EmitGet
    \/ EmitTimeout
    \/ EmitAfterTimeout
    \/ EmitWake
    \/ ServerNext
    \/ ConsumerAwaited
    \/ Disconnect
    \/ Record
    \/ Close

StreamSpec == StreamInit /\ [][StreamNext]_vars

----------------------------------------------------------------------------
(* Claims about the stream, checked under StreamSpec *)

\* the records of the request in the window stored for its pair
StreamRecords ==
    LET w == IF model_request_history[StreamKey] # 0
             THEN heap[model_request_history[StreamKey]]
             ELSE redis_db[StreamKey]
    IN  SelectSeq(w, LAMBDA r : r.request_id = StreamId)

\* C1: once the upstream response has ended, with or without [DONE], the emit
\* task is never left waiting without a timeout on an empty queue before it
\* has emitted [DONE]: it emits [DONE] and the response stream ends.
C1_NeverBlocksForever ==
    ~(/\ stream = "iter"
      /\ consumer.pc = "done"
      /\ gen.pc = "get"
      /\ gen.timeout = "none"
      /\ response_queue = <<>>
      /\ DoneOut \notin Range(out))

\* C10: every streaming request appends exactly one record to the history of
\* the selected pair, on every exit path; the record has request_success = TRUE
\* only if a first non-empty upstream chunk was received, then with
\* first_token_rt >= 0, and first_token_rt = -1 otherwise.
C10_OneRecordPerStream ==
    stream \in {"aclose", "end"} =>
        /\ recorded = 1
        /\ Len(StreamRecords) = 1
        /\ StreamRecords[1].request_success => first_token
        /\ StreamRecords[1].request_success => StreamRecords[1].first_token_rt >= 0
        /\ ~StreamRecords[1].request_success => StreamRecords[1].first_token_rt = -1


\* the sub-chunks the client was sent for field of upstream chunk rec
Deltas(rec, field) ==
    SelectSeq(out, LAMBDA e : e.type = "delta" /\ e.rec = rec /\ e.field = field)

RECURSIVE Concat(_)
Concat(es) == IF es = <<>> THEN <<>> ELSE Head(es).text \o Concat(Tail(es))

\* the record at position pos of upstream chunk rec comes before every [DONE]
BeforeDone(rec, pos) ==
    /\ \A k \in 1..(rec - 1) : \A i \in DOMAIN consumer.read[k] :
          consumer.read[k][i].kind # "[DONE]"
    /\ \A i \in 1..(pos - 1) : consumer.read[rec][i].kind # "[DONE]"

\* the response ended with [DONE] and carries no error message
Completed == out # <<>> /\ out[Len(out)] = DoneOut /\ ErrorOut \notin Range(out)

\* the sub-chunks of one field are of 3 characters, the last of 1 to 3
WellSliced(ds) ==
    \A i \in DOMAIN ds :
        /\ Len(ds[i].text) \in 1..3
        /\ i < Len(ds) => Len(ds[i].text) = 3

\* C16: every upstream record with non-empty delta.content (reasoning_content)
\* that the drain task received is sent on in sub-chunks of 3 characters, the
\* last of 1 to 3, whose concatenation is the upstream field; none is dropped.
C16_RepackingFidelity ==
    Completed =>
        \A rec \in DOMAIN consumer.read : \A pos \in DOMAIN consumer.read[rec] :
            LET record == consumer.read[rec][pos]
            IN  (record.kind = "json" /\ BeforeDone(rec, pos)) =>
                    /\ WellSliced(Deltas(rec, "content"))
                    /\ WellSliced(Deltas(rec, "reasoning_content"))
                    /\ record.content # <<>> =>
                           Concat(Deltas(rec, "content")) = record.content
                    /\ record.reasoning_content # <<>> =>
                           Concat(Deltas(rec, "reasoning_content")) = record.reasoning_content

\* C17: the sub-chunks reach the client in upstream order, and within one
\* record those of content before those of reasoning_content.
C17_UpstreamOrder ==
    \A i, j \in DOMAIN out :
        (i < j /\ out[i].type = "delta" /\ out[j].type = "delta") =>
            /\ out[i].rec <= out[j].rec
            /\ out[i].rec = out[j].rec =>
                   ~(out[i].field = "reasoning_content" /\ out[j].field = "content")

\* sub-chunks of two upstream records were sent, of both fields for one of them
C17_Witness ==
    /\ \E i, j \in DOMAIN out :
          /\ out[i].type = "delta" /\ out[j].type = "delta"
          /\ out[i].rec = out[j].rec
          /\ out[i].field = "content" /\ out[j].field = "reasoning_content"
    /\ \E i, j \in DOMAIN out :
          /\ out[i].type = "delta" /\ out[j].type = "delta"
          /\ out[i].rec < out[j].rec

\* C18: at most one record sent carries a finish_reason; it comes before
\* [DONE] and only [DONE] follows it.
C18_FinishOnceAndLast ==
    LET finished == {i \in DOMAIN out : out[i].finish_reason # None}
    IN  /\ Cardinality(finished) <= 1
        /\ \A i \in finished : \A j \in DOMAIN out :
              /\ j > i => out[j] = DoneOut
              /\ j < i => out[j] # DoneOut

\* sub-chunks, then the record with finish_reason, then [DONE] were sent
C18_Witness ==
    /\ Len(out) >= 3
    /\ out[1].type = "delta"
    /\ out[Len(out) - 1] = FinishOut
    /\ out[Len(out)] = DoneOut

\* C19: the last sub-chunk sent for an upstream record that carries a
\* finish_reason carries the same finish_reason, and no other sub-chunk of the
\* record carries one.
C19_FinishReasonCarried ==
    \A rec \in DOMAIN consumer.read :
        LET chunk == consumer.read[rec]
            ds == SelectSeq(out, LAMBDA e : e.type = "delta" /\ e.rec = rec)
        IN  (/\ Len(chunk) = 1
             /\ chunk[1].kind = "json"
             /\ chunk[1].finish_reason # None
             /\ ds # <<>>
             /\ Len(ds) = Len(process_chunk(
                    QueueItem("content", chunk[1].ident, chunk[1].content,
                              chunk[1].reasoning_content, rec))))
            => /\ ds[Len(ds)].finish_reason = chunk[1].finish_reason
               /\ \A i \in 1..(Len(ds) - 1) : ds[i].finish_reason = None

\* C20: [DONE] is preceded immediately by the record with an empty delta and
\* finish_reason stop if and only if no record with a finish_reason was sent
\* earlier in the stream.
C20_SyntheticStop ==
    \A i \in DOMAIN out :
        out[i] = DoneOut =>
            ((i > 1 /\ out[i - 1] = FinishOut)
             <=> ~\E j \in 1..(i - 2) : out[j].finish_reason # None)

\* generate_small_chunks stands at its last yield: the loop is left next
LastYield == stream = "iter" /\ gen.pc = "yield" /\ gen.pending = <<>> /\ gen.then = "break"

\* C21: a stream that carries an error record still ends with exactly one
\* [DONE], as its last record.
C21_ErrorThenDone ==
    (LastYield /\ ErrorOut \in Range(out)) =>
        /\ out[Len(out)] = DoneOut
        /\ Cardinality({i \in DOMAIN out : out[i] = DoneOut}) = 1

\* C22: when an error record was sent for the request, the record appended
\* for it has request_success = FALSE, also when the error came after the
\* first upstream byte.
C22_ErrorRecordsFailure ==
    (recorded > 0 /\ ErrorOut \in Range(out)) =>
        \A i \in DOMAIN StreamRecords : ~StreamRecords[i].request_success

\* C24: the emit task never goes to sleep for pacing before a sub-chunk when
\* upstream_complete is already set, whenever the upstream finished.
C24_NoDelayOnceComplete ==
    [][(gen.pc # "sleep" /\ gen'.pc = "sleep") => ~upstream_complete]_vars

----------------------------------------------------------------------------
(* ApiSpec: the route handlers of index.py on bounded requests *)

ADMIN_API_KEY == "adminadmin"
ALLOWED_API_KEYS == {"temp_api_key", "temp_api_key_one"}

Schemes == {"Bearer", "bearer", "Basic"}
Credentials == {ADMIN_API_KEY, "temp_api_key", "temp_api_key_one", "wrong"}

AuthHeaders ==
    {NoHeader, Header(<<>>), Header(<<"Bearer">>), Header(<<"Bearer", ADMIN_API_KEY, "x">>)}
    \cup {Header(<<s, k>>) : s \in Schemes, k \in Credentials}

\* the auth_key cookie
Cookies == {None, "", ADMIN_API_KEY, "temp_api_key", "wrong"}

\* the model field of the body; "" also stands for a body without the field
RequestModels == {"", "m", "a", "u"}

\* str.lower() on the schemes and the header names drawn
lower(scheme) ==
    CASE scheme = "Bearer" -> "bearer"
      [] scheme = "Basic" -> "basic"
      [] scheme \in {"Host", "HOST"} -> "host"
      [] scheme \in {"Authorization", "AUTHORIZATION"} -> "authorization"
      [] scheme \in {"Content-Length", "CONTENT-LENGTH"} -> "content-length"
      [] OTHER -> scheme

APIConfig(id, models, model_mappings) ==
    [id |-> id, models |-> models, model_mappings |-> model_mappings]

ConfigsOf(id, mappings) ==
    {APIConfig(id, models, mm) : models \in SUBSET {"m", "a"}, mm \in mappings}

\* mutant: every well-formed bearer credential is admitted
check_any_key(auth_header) ==
    IF ~auth_header.given THEN 401
    ELSE IF Len(auth_header.words) # 2 THEN 401
    ELSE IF lower(auth_header.words[1]) # "bearer" THEN 401
    ELSE 0

\* openai_proxy, the credential check: the status it raises, 0 when it passes
check_api_key(auth_header) ==
    IF ~auth_header.given THEN 401
    ELSE IF Len(auth_header.words) # 2 THEN 401
    ELSE IF lower(auth_header.words[1]) # "bearer" THEN 401
    ELSE IF ALLOWED_API_KEYS = {} /\ ADMIN_API_KEY = "" THEN 401
    ELSE IF auth_header.words[2] # ADMIN_API_KEY /\ auth_header.words[2] \notin ALLOWED_API_KEYS
         THEN 401
    ELSE 0

\* the status get_admin_api_key_from_cookie raises, 0 when it passes
get_admin_api_key_from_cookie(request) ==
    IF request.auth_key \in {None, ""} \/ request.auth_key # ADMIN_API_KEY THEN 401 ELSE 0

\* mutant: the target of a per-config mapping is not looked up in config.models
RECURSIVE matching_any_target(_, _, _)
matching_any_target(model, configs, mappings) ==
    IF configs = <<>> THEN <<>>
    ELSE LET config == configs[1]
             mapped == IF DOMAIN config.model_mappings # {}
                          /\ model \in DOMAIN config.model_mappings
                       THEN <<Pair(config.id, config.model_mappings[model])>>
                       ELSE <<>>
             native == IF model \in config.models THEN <<Pair(config.id, model)>> ELSE <<>>
         IN  mapped \o native \o matching_any_target(model, Tail(configs), mappings)

\* get_config_model_pairs, the loop over the configs: matching_configs
RECURSIVE matching_configs(_, _, _)
matching_configs(model, configs, mappings) ==
    IF configs = <<>> THEN <<>>
    ELSE LET config == configs[1]
             mapped == IF DOMAIN config.model_mappings # {}
                          /\ model \in DOMAIN config.model_mappings
                       THEN LET actual_model == config.model_mappings[model]
                            IN  IF actual_model \in config.models
                                THEN <<Pair(config.id, actual_model)>>
                                ELSE <<>>
                       ELSE <<>>
             native == IF model \in config.models THEN <<Pair(config.id, model)>> ELSE <<>>
         IN  mapped \o native \o matching_configs(model, Tail(configs), mappings)

\* get_config_model_pairs; <<>> stands for HTTPException(404) raised
get_config_model_pairs(model) ==
    matching_configs(model, in_memory_db.api_configs, in_memory_db.model_mappings)

\* list_available_models: reverse_model_mappings, vendor model -> unified name;
\* the global table holds one vendor model per unified name here
reverse_model_mappings(model_mappings) ==
    [vendor_model \in {model_mappings[u] : u \in DOMAIN model_mappings} |->
        CHOOSE u \in DOMAIN model_mappings : model_mappings[u] = vendor_model]

\* the ids one config's model contributes to the listing
listed_for(config, model, reverse) ==
    IF model \in DOMAIN reverse THEN {reverse[model]}
    ELSE IF DOMAIN config.model_mappings # {}
    THEN LET aliases == {alias \in DOMAIN config.model_mappings :
                            config.model_mappings[alias] = model}
         IN  IF aliases # {} THEN aliases ELSE {model}
    ELSE {model}

\* list_available_models for an admitted key: the set all_models
list_available_models ==
    LET model_mappings == in_memory_db.model_mappings
        reverse == reverse_model_mappings(model_mappings)
    IN  DOMAIN model_mappings
        \cup UNION {UNION {listed_for(config, model, reverse) : model \in config.models} :
                       config \in Range(in_memory_db.api_configs)}

\* what the upstream does with a non-streaming request: a status, or 0 when
\* client.request or response.json() raises
UpstreamAnswers == {200, 401, 0}

\* the handler has returned or raised
Answered == http_response # NoResponse

\* openai_proxy
openai_proxy ==
    /\ ~Answered
    /\ http_request.route = "/v1/chat/completions"
    /\ LET request == http_request IN
       IF check_api_key(request.auth_header) # 0
       THEN /\ http_response' = HttpResponse(check_api_key(request.auth_header), FALSE, FALSE)
            /\ UNCHANGED selVars
       ELSE IF request.model = ""
       THEN /\ http_response' = HttpResponse(400, FALSE, FALSE)
            /\ UNCHANGED selVars
       ELSE LET config_model_pairs == get_config_model_pairs(request.model)
                config_model_key_list == {KeyOf(p) : p \in Range(config_model_pairs)}
            IN  \E get_ok \in BOOLEAN :
                IF redis_client /\ ~get_ok
                THEN \* redis_client.get("api_configs") raises inside the try block
                     /\ http_response' =
                            [HttpResponse(500, TRUE, FALSE) EXCEPT !.kv = "get_failed"]
                     /\ UNCHANGED selVars
                ELSE IF config_model_pairs = <<>>
                THEN \* the HTTPException(404) is caught by except Exception
                     /\ http_response' = HttpResponse(500, TRUE, FALSE)
                     /\ UNCHANGED selVars
                ELSE \E mget_ok \in BOOLEAN, answer \in UpstreamAnswers :
                       LET model_request_map ==
                               batch_get_model_request_record(config_model_key_list, mget_ok)
                           by_value == [k \in DOMAIN model_request_map |->
                                           WindowOf(model_request_map[k])]
                       IN  /\ Choose(config_model_pairs, by_value, now)
                           /\ http_response' =
                                [(IF sel_out' \notin Range(config_model_pairs)
                                  THEN HttpResponse(500, TRUE, FALSE)
                                  ELSE IF request.is_stream
                                  THEN HttpResponse(200, TRUE, TRUE)
                                  ELSE IF answer = 0
                                  THEN HttpResponse(500, TRUE, TRUE)
                                  ELSE HttpResponse(answer, TRUE, TRUE))
                                 EXCEPT !.kv = IF redis_client /\ ~mget_ok
                                               THEN "mget_failed" ELSE "ok"]
    /\ UNCHANGED <<now, storeVars, reqVars, streamVars, in_memory_db, http_request,
                   inbound, upstream_request>>

\* list_configs and list_model_mappings behind their dependency
list_route ==
    /\ ~Answered
    /\ http_request.route \in {"/api/configs", "/api/model-mappings"}
    /\ http_response' =
         IF get_admin_api_key_from_cookie(http_request) # 0
         THEN HttpResponse(get_admin_api_key_from_cookie(http_request), FALSE, FALSE)
         ELSE HttpResponse(200, FALSE, FALSE)
    /\ UNCHANGED <<now, storeVars, selVars, reqVars, streamVars, in_memory_db, http_request,
                   inbound, upstream_request>>

ChatRequests ==
    {HttpRequest("/v1/chat/completions", h, None, m, st) :
        h \in AuthHeaders, m \in RequestModels, st \in BOOLEAN}

AdminRequests ==
    {HttpRequest(r, h, c, "", FALSE) :
        r \in {"/api/configs", "/api/model-mappings"},
        h \in {NoHeader, Header(<<"Bearer", ADMIN_API_KEY>>), Header(<<"Bearer", "temp_api_key">>)},
        c \in Cookies}

ApiStoreKeys == {build_model_request_record_key(id, m) : id \in {"c1", "c2"}, m \in {"m", "a", "z"}}

ApiInit ==
    /\ now = T0
    /\ ticks = 0
    /\ reqs = <<>>
    /\ redis_client \in BOOLEAN
    /\ \E broken \in IF redis_client THEN {{}, {build_model_request_record_key("c1", "m")}}
                                     ELSE {{}} :
          /\ redis_db = [k \in ApiStoreKeys |-> IF k \in broken THEN Fails(3, T0) ELSE <<>>]
          /\ redis_exp = [k \in ApiStoreKeys |-> IF k \in broken THEN T0 + max_age ELSE 0]
    /\ model_request_history = [k \in ApiStoreKeys |-> 0]
    /\ heap = <<>>
    /\ sel_pairs = <<>>
    /\ sel_map = <<>>
    /\ sel_valid = <<>>
    /\ sel_weights = <<>>
    /\ sel_out = NonePair
    /\ sel_time = 0
    /\ sel_done = FALSE
    /\ StreamIdle
    /\ \E c1 \in ConfigsOf("c1", {EmptyDict, Dict("u", "a"), Dict("u", "z"),
                                  Dict("m", "a"), Dict("m", "m")}),
          c2 \in ConfigsOf("c2", {EmptyDict, Dict("u", "m")}),
          mappings \in {EmptyDict, Dict("u", "m")} :
          in_memory_db = [api_configs |-> <<c1, c2>>, model_mappings |-> mappings]
    /\ http_request \in ChatRequests \cup AdminRequests
    /\ http_response = NoResponse
    /\ inbound = NoInbound
    /\ upstream_request = NoUpstream

ApiNext ==
    \/ openai_proxy
    \/ list_route

ApiSpec == ApiInit /\ [][ApiNext]_vars

----------------------------------------------------------------------------
(* The catalog and the credential checks: claims over ApiSpec *)

Chat == Answered /\ http_request.route = "/v1/chat/completions"
Admin == Answered /\ http_request.route \in {"/api/configs", "/api/model-mappings"}

\* a header of the form "Bearer <key>", the scheme in any case
BearerKey(h) == h.given /\ Len(h.words) = 2 /\ h.words[1] \in {"Bearer", "bearer"}
KnownKey(h) == BearerKey(h) /\ h.words[2] \in {ADMIN_API_KEY} \cup ALLOWED_API_KEYS
TenantKey(h) == BearerKey(h) /\ h.words[2] \in ALLOWED_API_KEYS
AdminKey(h) == BearerKey(h) /\ h.words[2] = ADMIN_API_KEY

Configs == Range(in_memory_db.api_configs)

\* the pairs (C, A) with C.model_mappings[M] = A and A in C.models
MappingPairs(M) ==
    {Pair(C.id, C.model_mappings[M]) :
        C \in {c \in Configs : /\ M \in DOMAIN c.model_mappings
                               /\ c.model_mappings[M] \in c.models}}

\* the pairs (C, M) with M in C.models
NativePairs(M) == {Pair(C.id, M) : C \in {c \in Configs : M \in c.models}}

NoCandidate(M) == MappingPairs(M) \cup NativePairs(M) = {}

Occurrences(seq, x) == Cardinality({i \in DOMAIN seq : seq[i] = x})

\* C12: an authenticated chat-completions request whose model has no candidate
\* is answered 404, not 500, and nothing is forwarded upstream.
C12_NoCandidateIsNotFound ==
    (/\ Chat
     /\ KnownKey(http_request.auth_header)
     /\ http_request.model # ""
     /\ NoCandidate(http_request.model))
    => /\ http_response.status_code = 404
       /\ ~http_response.forwarded

\* C13: get_config_model_pairs(M) returns exactly the per-config mapping pairs
\* whose target the config lists, together with the native pairs, each once
\* per rule that emits it, whatever the global mapping table holds.
C13_CatalogPairs ==
    \A M \in RequestModels \ {""} :
        LET result == get_config_model_pairs(M)
        IN  /\ Range(result) = MappingPairs(M) \cup NativePairs(M)
            /\ \A p \in Range(result) :
                  Occurrences(result, p) =
                      (IF p \in MappingPairs(M) THEN 1 ELSE 0)
                      + (IF p \in NativePairs(M) THEN 1 ELSE 0)

\* C32: get_config_model_pairs(M) holds no pair twice, for every config list
\* and client model, so the selector weighs every pair once.
C32_NoDuplicatePair ==
    /\ \A M \in RequestModels \ {""} :
           LET result == get_config_model_pairs(M)
           IN  \A p \in Range(result) : Occurrences(result, p) = 1
    /\ sel_done => \A p \in Range(sel_valid) : Occurrences(sel_valid, p) = 1

Servable(M) == get_config_model_pairs(M) # <<>>

\* the names the listing may show in place of model M
AliasesOf(M) ==
    {u \in DOMAIN in_memory_db.model_mappings : in_memory_db.model_mappings[u] = M}
    \cup UNION {{alias \in DOMAIN c.model_mappings : c.model_mappings[alias] = M} :
                  c \in Configs}

\* C35: every id /v1/models lists has a candidate in get_config_model_pairs
\* under the same configs and mappings, and every model served natively is
\* listed itself or through an alias that has a candidate.
C35_ListedIsServable ==
    /\ \A id \in list_available_models : Servable(id)
    /\ \A M \in {"m", "a"} :
           NativePairs(M) # {}
           => \/ M \in list_available_models
              \/ \E alias \in AliasesOf(M) :
                    alias \in list_available_models /\ Servable(alias)

\* a request was looked up whose per-config mapping points outside the config's
\* models while another config serves it, under a non-empty global table
C13_Witness ==
    /\ Chat
    /\ http_response.looked_up
    /\ http_response.forwarded
    /\ http_request.model = "u"
    /\ in_memory_db.model_mappings # EmptyDict
    /\ \E c \in Configs : /\ "u" \in DOMAIN c.model_mappings
                          /\ c.model_mappings["u"] \notin c.models
    /\ get_config_model_pairs("u") = <<Pair("c2", "m")>>

\* C14: on admin routes a bearer admin key without the cookie is admitted, and
\* a bearer tenant key is rejected with 403.
C14_AdminRouteBearer ==
    (Admin /\ http_request.auth_key = None)
    => /\ AdminKey(http_request.auth_header) => http_response.status_code = 200
       /\ TenantKey(http_request.auth_header) => http_response.status_code = 403

\* C15: on /v1/chat/completions a missing header, a header not of the form
\* "Bearer <key>" and an unknown key yield 401 without catalog lookup or upstream
\* call, also when the body names no model; the admin key and the tenant keys
\* are admitted.
C15_ChatCredentials ==
    Chat =>
        IF KnownKey(http_request.auth_header)
        THEN IF http_request.model = ""
             THEN http_response.status_code = 400
             ELSE http_response.looked_up
        ELSE /\ http_response.status_code = 401
             /\ ~http_response.looked_up
             /\ ~http_response.forwarded

\* an unknown key with a body that names no model was answered
C15_Witness ==
    /\ Chat
    /\ BearerKey(http_request.auth_header)
    /\ ~KnownKey(http_request.auth_header)
    /\ http_request.model = ""
    /\ http_response.status_code = 401

-----------------------------------------------------------------------------
(* The request openai_proxy forwards: body, headers and url, computed from  *)
(* the inbound request and the selected (config, actual_model).             *)

MaxUrlLen == 3

\* a JSON object as text: its members in the order written (a key may be
\* written twice) and the way it is spaced and separated
JsonBody(pairs, format) == [pairs |-> pairs, format |-> format]
Formats == {"compact", "dumps", "pretty"}

\* a python dict: members in insertion order, each key once
body_keys(body_dict) == {body_dict[i][1] : i \in DOMAIN body_dict}

body_get(body_dict, key, default) ==
    IF key \in body_keys(body_dict)
    THEN body_dict[CHOOSE i \in DOMAIN body_dict : body_dict[i][1] = key][2]
    ELSE default

body_set(body_dict, key, value) ==
    IF key \in body_keys(body_dict)
    THEN [i \in DOMAIN body_dict |->
            IF body_dict[i][1] = key THEN <<key, value>> ELSE body_dict[i]]
    ELSE Append(body_dict, <<key, value>>)

RECURSIVE json_loads_pairs(_, _)
json_loads_pairs(pairs, body_dict) ==
    IF pairs = <<>> THEN body_dict
    ELSE json_loads_pairs(Tail(pairs),
                          body_set(body_dict, Head(pairs)[1], Head(pairs)[2]))

\* json.loads: the last value written for a key wins
json_loads(body) == json_loads_pairs(body.pairs, <<>>)

\* json.dumps(...).encode(): the separators are ", " and ": "
json_dumps(body_dict) == JsonBody(body_dict, "dumps")

\* number of bytes of a key or value as written, quotes included
text_len(word) ==
    CASE word = "model" -> 7
      [] word = "stream" -> 8
      [] word = "temperature" -> 13
      [] word = "u" -> 3
      [] word = "m-large" -> 9
      [] word = "true" -> 4
      [] OTHER -> 1

colon_len(format) == IF format = "compact" THEN 1 ELSE 2
comma_len(format) ==
    CASE format = "compact" -> 1 [] format = "dumps" -> 2 [] OTHER -> 4

RECURSIVE pairs_len(_, _)
pairs_len(pairs, format) ==
    IF pairs = <<>> THEN 0
    ELSE text_len(Head(pairs)[1]) + colon_len(format) + text_len(Head(pairs)[2])
         + (IF Len(pairs) > 1 THEN comma_len(format) ELSE 0)
         + pairs_len(Tail(pairs), format)

\* len(body)
len(body) == 2 + pairs_len(body.pairs, body.format)

\* the body sent when it is serialised again in every case
forward_body_always_dumps(body, actual_model) ==
    json_dumps(body_set(json_loads(body), "model", actual_model))

\* the body sent: rewritten only when the selected model is another one
forward_body(body, actual_model) ==
    LET body_dict == json_loads(body)
        model == body_get(body_dict, "model", "")
    IN IF actual_model # model
       THEN json_dumps(body_set(body_dict, "model", actual_model))
       ELSE body

\* dict(request.headers): the server hands the names over lower-cased, and
\* the first value of a repeated name is the one the mapping returns
request_headers(wire) ==
    [k \in {lower(wire[i][1]) : i \in DOMAIN wire} |->
        wire[CHOOSE i \in DOMAIN wire :
                /\ lower(wire[i][1]) = k
                /\ \A j \in 1..(i - 1) : lower(wire[j][1]) # k][2]]

pop(headers, keys) == [k \in DOMAIN headers \ keys |-> headers[k]]

set_header(headers, key, value) ==
    [k \in DOMAIN headers \cup {key} |-> IF k = key THEN value ELSE headers[k]]

Bearer(api_key) == <<"Bearer", api_key>>

\* the scrubbing that keeps the inbound Content-Length
forward_headers_keep_length(wire, body, config) ==
    LET h0 == pop(request_headers(wire), {"host"})
        h1 == pop(h0, {k \in DOMAIN h0 : lower(k) = "authorization"})
        h3 == IF body.pairs # <<>> THEN set_header(h1, "Content-Length", len(body)) ELSE h1
    IN set_header(h3, "Authorization", Bearer(config.api_key))

\* the headers sent
forward_headers(wire, body, config) ==
    LET h0 == pop(request_headers(wire), {"host"})
        h1 == pop(h0, {k \in DOMAIN h0 : lower(k) = "authorization"})
        h2 == pop(h1, {k \in DOMAIN h1 : lower(k) = "content-length"})
        h3 == IF body.pairs # <<>> THEN set_header(h2, "Content-Length", len(body)) ELSE h2
    IN set_header(h3, "Authorization", Bearer(config.api_key))

endswith(text, char) == text # <<>> /\ text[Len(text)] = char

forward_url(base_url) ==
    IF endswith(base_url, "#") THEN SubSeq(base_url, 1, Len(base_url) - 1)
    ELSE IF endswith(base_url, "/") THEN base_url \o <<"chat", "/", "completions">>
    ELSE base_url \o <<"/", "v1", "/", "chat", "/", "completions">>

\* a url is a sequence of characters; "h", "v1", "chat" and "completions"
\* stand for runs of characters other than "/" and "#"
RECURSIVE Texts(_)
Texts(n) ==
    IF n = 0 THEN {<<>>}
    ELSE Texts(n - 1) \cup {Append(t, c) : t \in Texts(n - 1), c \in {"h", "/", "#"}}

BaseUrls == Texts(MaxUrlLen)

InboundBodies ==
    {JsonBody(pairs, format) :
        pairs \in {<<<<"model", "u">>>>,
                   <<<<"stream", "true">>, <<"model", "u">>, <<"temperature", "1">>>>,
                   <<<<"model", "m-large">>, <<"model", "u">>>>,
                   <<<<"temperature", "1">>, <<"model", "u">>, <<"temperature", "2">>>>},
        format \in Formats}

InboundHeaders(body) ==
    {<<<<host, "client.example">>, <<auth, Bearer("tenantkey")>>,
       <<length, len(body)>>>> \o rest :
        host \in {"host", "Host", "HOST"},
        auth \in {"authorization", "Authorization", "AUTHORIZATION"},
        length \in {"content-length", "Content-Length", "CONTENT-LENGTH"},
        rest \in {<<>>, <<<<"accept", "application/json">>>>,
                  <<<<"Authorization", Bearer("other")>>>>}}

ForwardInit ==
    /\ now = T0
    /\ ticks = 0
    /\ reqs = <<>>
    /\ redis_client = FALSE
    /\ StoreIdle
    /\ sel_pairs = <<>>
    /\ sel_map = <<>>
    /\ sel_valid = <<>>
    /\ sel_weights = <<>>
    /\ sel_out = NonePair
    /\ sel_time = 0
    /\ sel_done = FALSE
    /\ StreamIdle
    /\ in_memory_db = [api_configs |-> <<>>, model_mappings |-> EmptyDict]
    /\ http_request = NoRequest
    /\ http_response = NoResponse
    /\ \E body \in InboundBodies, base_url \in BaseUrls, actual_model \in {"u", "m-large"} :
       \E headers \in InboundHeaders(body) :
          inbound = [body |-> body, headers |-> headers,
                     config |-> [id |-> "c1", api_key |-> "sk-upstream",
                                 base_url |-> base_url],
                     actual_model |-> actual_model]
    /\ upstream_request = NoUpstream

\* openai_proxy from the model rewrite to the url
forward ==
    /\ inbound.actual_model # None
    /\ ~upstream_request.sent
    /\ LET body == forward_body(inbound.body, inbound.actual_model)
       IN upstream_request' =
            [sent |-> TRUE,
             url |-> forward_url(inbound.config.base_url),
             headers |-> forward_headers(inbound.headers, body, inbound.config),
             body |-> body]
    /\ UNCHANGED <<now, storeVars, selVars, reqVars, streamVars,
                   in_memory_db, http_request, http_response, inbound>>

ForwardNext == forward

ForwardSpec == ForwardInit /\ [][ForwardNext]_vars

-----------------------------------------------------------------------------
(* The forwarded request: claims over ForwardSpec *)

RequestedModel == body_get(json_loads(inbound.body), "model", "")

\* the members of a JSON text as a parser reads them: key -> value
Fields(body) ==
    LET d == json_loads(body)
    IN [k \in body_keys(d) |-> body_get(d, k, "")]

\* C26: the body sent upstream names the selected model, every other member
\* is the inbound one, and when the selected model is the requested one the
\* bytes sent are the bytes received.
C26_BodyRewrite ==
    upstream_request.sent =>
        /\ Fields(upstream_request.body) =
             set_header(Fields(inbound.body), "model", inbound.actual_model)
        /\ inbound.actual_model = RequestedModel
             => upstream_request.body = inbound.body

C26_Witness ==
    /\ upstream_request.sent
    /\ inbound.actual_model # RequestedModel
    /\ upstream_request.body # inbound.body
    /\ Len(inbound.body.pairs) = 3

NamesLike(headers, name) == {k \in DOMAIN headers : lower(k) = name}

\* C27: the request sent upstream has exactly one Authorization header, with
\* the selected config's key, exactly one Content-Length, the byte length of
\* the body sent, and no Host header, whatever the case of the inbound names.
C27_HeaderScrubbing ==
    upstream_request.sent =>
        LET h == upstream_request.headers
        IN /\ Cardinality(NamesLike(h, "authorization")) = 1
           /\ \A k \in NamesLike(h, "authorization") :
                  h[k] = Bearer(inbound.config.api_key)
           /\ Cardinality(NamesLike(h, "content-length")) = 1
           /\ \A k \in NamesLike(h, "content-length") :
                  h[k] = len(upstream_request.body)
           /\ NamesLike(h, "host") = {}

C27_Witness ==
    /\ upstream_request.sent
    /\ inbound.headers[1][1] = "HOST"
    /\ inbound.headers[2][1] = "AUTHORIZATION"
    /\ inbound.headers[3][1] = "Content-Length"
    /\ inbound.headers[3][2] # len(upstream_request.body)
    /\ "accept" \in DOMAIN upstream_request.headers

Contains(text, part) ==
    \E i \in 1..(Len(text) - Len(part) + 1) : SubSeq(text, i, i + Len(part) - 1) = part

\* C28: the url is composed by exactly one of the three rules and contains
\* neither "##" nor "//chat", for every base_url.
C28_UrlComposition ==
    upstream_request.sent =>
        LET base_url == inbound.config.base_url
            url == upstream_request.url
        IN /\ \/ /\ endswith(base_url, "#")
                 /\ url = SubSeq(base_url, 1, Len(base_url) - 1)
              \/ /\ ~endswith(base_url, "#") /\ endswith(base_url, "/")
                 /\ url = base_url \o <<"chat", "/", "completions">>
              \/ /\ ~endswith(base_url, "#") /\ ~endswith(base_url, "/")
                 /\ url = base_url \o <<"/", "v1", "/", "chat", "/", "completions">>
           /\ ~Contains(url, <<"#", "#">>)
           /\ ~Contains(url, <<"/", "/", "chat">>)

-----------------------------------------------------------------------------
(* Reads of the key-value store that raise: claim over ApiSpec *)

EqualWeights == \A i, j \in DOMAIN sel_weights : sel_weights[i] = sel_weights[j]

\* the histories could not be loaded: every candidate is kept, weights equal
HistoryLoadDegrades ==
    http_response.kv = "mget_failed" =>
        /\ sel_done
        /\ sel_map = <<>>
        /\ sel_valid = sel_pairs
        /\ EqualWeights

\* C29: a failed read of the histories makes the selection treat every
\* candidate as without history, and a failed read of the config list is
\* answered 404 and not 500.
C29_KvFailuresDegrade ==
    /\ HistoryLoadDegrades
    /\ http_response.kv = "get_failed" => http_response.status_code = 404

-----------------------------------------------------------------------------
(* BreakerSpec: requests one after the other while the upstreams are down *)

MaxFailures == 11

RECURSIVE TotalRecords(_)
TotalRecords(keys) ==
    IF keys = {} THEN 0
    ELSE LET k == CHOOSE x \in keys : TRUE
         IN  Len(StoredWindow(k)) + TotalRecords(keys \ {k})

BreakerInit ==
    /\ now = T0
    /\ ticks = 0
    /\ reqs = <<>>
    /\ redis_client \in BOOLEAN
    /\ redis_db = [k \in AllKeys |-> <<>>]
    /\ redis_exp = [k \in AllKeys |-> 0]
    /\ model_request_history = [k \in AllKeys |-> 0]
    /\ heap = <<>>
    /\ sel_pairs = <<>>
    /\ sel_map = <<>>
    /\ sel_valid = <<>>
    /\ sel_weights = <<>>
    /\ sel_out = NonePair
    /\ sel_time = 0
    /\ sel_done = FALSE
    /\ StreamIdle
    /\ in_memory_db \in
         {[api_configs |-> configs, model_mappings |-> EmptyDict] :
            configs \in {<<APIConfig("c1", {"m"}, EmptyDict)>>,
                         <<APIConfig("c1", {"m"}, EmptyDict),
                           APIConfig("c2", {"m"}, EmptyDict)>>}}
    /\ http_request = NoRequest
    /\ http_response = NoResponse
    /\ inbound = NoInbound
    /\ upstream_request = NoUpstream

\* time passes between two requests
BreakerTick ==
    /\ ticks < MaxTicks
    /\ now' = now + 5 * 60 * 1000
    /\ ticks' = ticks + 1
    /\ UNCHANGED <<storeVars, selVars, reqs, streamVars, apiVars>>

\* one streaming request for model "m" from openai_proxy to the finally block
\* of process_stream: the upstream fails before any byte of the answer, the
\* key-value store works
failed_request ==
    /\ TotalRecords(AllKeys) < MaxFailures
    /\ \E mget_ok, set_ok \in {TRUE} :
          LET config_model_pairs == get_config_model_pairs("m")
              config_model_key_list == {KeyOf(p) : p \in Range(config_model_pairs)}
              model_request_map ==
                  batch_get_model_request_record(config_model_key_list, mget_ok)
              by_value == [k \in DOMAIN model_request_map |->
                              WindowOf(model_request_map[k])]
          IN  /\ Choose(config_model_pairs, by_value, now)
              /\ record_model_request(
                     KeyOf(sel_out'),
                     ModelRequestRecord(0, now, FALSE, -1),
                     IF KeyOf(sel_out') \in DOMAIN model_request_map
                     THEN model_request_map[KeyOf(sel_out')] ELSE NoHist,
                     set_ok)
    /\ UNCHANGED <<now, ticks, reqs, streamVars, apiVars>>

BreakerNext ==
    \/ BreakerTick
    \/ failed_request

BreakerSpec == BreakerInit /\ [][BreakerNext]_vars

\* C30: no window the circuit-breaker filter reads has a leading run of ten or
\* more failures, so the fallback cooldown is never used, whatever the number
\* of candidates.
C30_FallbackCooldownUnused ==
    sel_done =>
        \A k \in DOMAIN sel_map : count_recent_consecutive_failures(sel_map[k]) < 10

-----------------------------------------------------------------------------
(* ConfigSpec: the admin routes that create, update and delete configs *)

MaxConfigs == 3

\* datetime.now().strftime("%Y%m%d%H%M%S"): the clock cut to the second
strftime(t) == t \div 1000

\* the configs an admin submits; the id is assigned by the route
SubmittedConfigs == {APIConfig(None, {model}, EmptyDict) : model \in {"m", "a"}}

ConfigInit ==
    /\ now = T0
    /\ ticks = 0
    /\ reqs = <<>>
    /\ redis_client = FALSE
    /\ StoreIdle
    /\ sel_pairs = <<>>
    /\ sel_map = <<>>
    /\ sel_valid = <<>>
    /\ sel_weights = <<>>
    /\ sel_out = NonePair
    /\ sel_time = 0
    /\ sel_done = FALSE
    /\ StreamIdle
    /\ in_memory_db = [api_configs |-> <<>>, model_mappings |-> EmptyDict]
    /\ http_request = NoRequest
    /\ http_response = NoResponse
    /\ inbound = NoInbound
    /\ upstream_request = NoUpstream

\* the clock between two admin requests: within the second, or into the next
ConfigTick ==
    /\ ticks < MaxTicks + 1
    /\ \E d \in {400, 1000} : now' = now + d
    /\ ticks' = ticks + 1
    /\ UNCHANGED <<storeVars, selVars, reqs, streamVars, in_memory_db, http_request,
                   http_response, inbound, upstream_request>>

\* POST /api/configs with a valid cookie
create_config ==
    /\ Len(in_memory_db.api_configs) < MaxConfigs
    /\ \E config \in SubmittedConfigs :
          in_memory_db' =
              [in_memory_db EXCEPT !.api_configs =
                  Append(@, [config EXCEPT !.id = strftime(now)])]
    /\ http_response' = HttpResponse(200, FALSE, FALSE)
    /\ UNCHANGED <<now, ticks, storeVars, selVars, reqs, streamVars, http_request,
                   inbound, upstream_request>>

\* PUT /api/configs/{config_id} with a valid cookie: the first config of that
\* id; 0 is an id no config has
update_config ==
    /\ \E config_id \in {c.id : c \in Range(in_memory_db.api_configs)} \cup {0},
          config \in SubmittedConfigs :
          LET configs == in_memory_db.api_configs
              found == {i \in DOMAIN configs : configs[i].id = config_id}
          IN  IF found = {}
              THEN /\ http_response' = HttpResponse(404, FALSE, FALSE)
                   /\ UNCHANGED in_memory_db
              ELSE LET i == CHOOSE x \in found : \A y \in found : x <= y
                   IN  /\ in_memory_db' =
                            [in_memory_db EXCEPT !.api_configs[i] =
                                [config EXCEPT !.id = config_id]]
                       /\ http_response' = HttpResponse(200, FALSE, FALSE)
    /\ UNCHANGED <<now, ticks, storeVars, selVars, reqs, streamVars, http_request,
                   inbound, upstream_request>>

\* DELETE /api/configs/{config_id} with a valid cookie: every config of that id
delete_config ==
    /\ \E config_id \in {c.id : c \in Range(in_memory_db.api_configs)} \cup {0} :
          in_memory_db' =
              [in_memory_db EXCEPT !.api_configs =
                  SelectSeq(@, LAMBDA c : c.id # config_id)]
    /\ http_response' = HttpResponse(200, FALSE, FALSE)
    /\ UNCHANGED <<now, ticks, storeVars, selVars, reqs, streamVars, http_request,
                   inbound, upstream_request>>

ConfigNext ==
    \/ ConfigTick
    \/ create_config
    \/ update_config
    \/ delete_config

ConfigSpec == ConfigInit /\ [][ConfigNext]_vars

\* C33: no two stored configs share an id, so for no model two configs share
\* a history key, whatever creates, updates and deletes came before.
C33_UniqueConfigIds ==
    \A i, j \in DOMAIN in_memory_db.api_configs :
        i # j =>
            /\ in_memory_db.api_configs[i].id # in_memory_db.api_configs[j].id
            /\ \A model \in {"m", "a"} :
                  build_model_request_record_key(in_memory_db.api_configs[i].id, model)
                  # build_model_request_record_key(in_memory_db.api_configs[j].id, model)

====
